---- MODULE Spec2Model ----
(***************************************************************************)
(* Model of nerdlog's custom-command shell transport                       *)
(* (core/shell_transport_custom_cmd.go): the doConnect handshake, the      *)
(* background stdout reader, the connection object and its Close, together *)
(* with the external process and the consumer of the result channel; and   *)
(* of the transport modes: ParseTransportMode, CustomShellCommand and the  *)
(* expansion of the transport command into the argument vector.            *)
(*                                                                         *)
(* Byte streams are sequences of one-character strings; transport specs,   *)
(* commands, variable names and values are strings.                        *)
(***************************************************************************)
EXTENDS Integers, Sequences, FiniteSets, TLC

(***************************************************************************)
(* Bounds of the model.                                                    *)
(***************************************************************************)
\* bufio.MaxScanTokenSize is 64*1024; the model scales the scanner buffer
\* down so that an over-long line is a handful of bytes.
MaxScanTokenSize == 16
\* Clock ticks the model lets pass while doConnect waits in its select.
MaxWait == 3
\* connectionTimeout in clock ticks (its value is set outside src/).
connectionTimeout == 2

(***************************************************************************)
(* Bytes and byte strings.                                                 *)
(***************************************************************************)
LF == "\n"
CR == "\r"

echoMarkerConnected ==
  <<"_", "_", "C", "O", "N", "N", "E", "C", "T", "E", "D", "_", "_">>

\* The line doConnect writes to stdin: fmt.Fprintf(stdin, "echo %s\n", marker)
HandshakeLine == <<"e", "c", "h", "o", " ">> \o echoMarkerConnected \o <<LF>>

Min(a, b) == IF a < b THEN a ELSE b

IsPrefix(p, s) == Len(p) <= Len(s) /\ SubSeq(s, 1, Len(p)) = p

Drop(s, n) == SubSeq(s, n + 1, Len(s))

\* Index of the first occurrence of byte b in s, 0 when there is none.
IndexOf(s, b) ==
  IF \E i \in 1..Len(s) : s[i] = b
    THEN CHOOSE i \in 1..Len(s) : s[i] = b /\ \A j \in 1..(i - 1) : s[j] # b
    ELSE 0

\* bufio.dropCR: drops one terminal carriage return.
dropCR(data) ==
  IF Len(data) > 0 /\ data[Len(data)] = CR
    THEN SubSeq(data, 1, Len(data) - 1)
    ELSE data

\* What a POSIX shell prints for a line "echo X\n" read from its stdin.
ShellReply(line) ==
  IF IsPrefix(<<"e", "c", "h", "o", " ">>, line) THEN Drop(line, 5) ELSE <<>>

\* The lines of a byte stream in the plain sense: maximal runs of bytes
\* between line feeds, the unterminated rest included when it is non-empty.
RECURSIVE LinesOf(_)
LinesOf(s) ==
  LET i == IndexOf(s, LF) IN
    IF i = 0
      THEN (IF s = <<>> THEN {} ELSE {s})
      ELSE {SubSeq(s, 1, i - 1)} \cup LinesOf(Drop(s, i))

RECURSIVE Repeat(_, _)
Repeat(b, n) == IF n = 0 THEN <<>> ELSE <<b>> \o Repeat(b, n - 1)

(***************************************************************************)
(* Inputs.                                                                 *)
(***************************************************************************)
\* The variables a transport command may name.
VarNames == {"NLHOST", "NLPORT", "NLUSER", "X"}

\* The values EnvOverride may give a variable. NLHOST is always present;
\* NLPORT and NLUSER are present only when given; an empty value unsets.
OverrideValues(n) ==
  CASE n = "NLHOST" -> {"h"}
    [] n = "NLPORT" -> {"", "22"}
    [] n = "NLUSER" -> {"", "u"}
    [] OTHER -> {"", "v"}

\* s.params.EnvOverride: a map from some of the names to values.
EnvOverrides ==
  UNION { {f \in [D -> {"", "h", "22", "u", "v"}] :
             \A n \in D : f[n] \in OverrideValues(n)} :
          D \in {E \in SUBSET VarNames : "NLHOST" \in E} }

\* The process environment: os.Getenv gives "" for a variable it lacks.
OsEnvs ==
  {f \in [VarNames -> {"", "9", "e"}] :
     /\ f["NLHOST"] = "" /\ f["NLUSER"] = ""
     /\ f["NLPORT"] \in {"", "9"} /\ f["X"] \in {"", "e"}}

\* Transport specs given to ParseTransportMode.
TransportSpecs ==
  { "ssh-lib", "ssh-bin", "custom:", "custom:sh", "custom:custom:sh",
    "custom", "", "SSH-BIN", "Custom:sh", " ssh-bin", "ssh-bin ", "ssh",
    "ssh-bin:x", "xcustom:sh", "custom: ",
    "custom:a '", "custom:a ${X", "custom:a $(b)", "custom:a; b",
    "custom:${X}", "custom:a ${X}", "custom:a ${X:-d}", "custom:a ${X:+b}",
    "custom:a '${X}' \"${X:-d}\" ''",
    "custom:if true; then a; fi", "custom:if ${X:+a b} fi",
    "custom:ssh -o 'BatchMode=yes' ${NLPORT:+-p ${NLPORT}} ${NLUSER:+${NLUSER}@}${NLHOST} /bin/sh" }

\* The transport specs of the runs that go on to the handshake.
ConnectSpecs == {"custom:", "custom:a '", "ssh-bin"}

\* What the external process does with its stdout: a sequence of write(2)
\* calls, and "reply" steps in which it reads one line from stdin and prints
\* the shell's answer to it.
W(b) == [kind |-> "write", bytes |-> b]
Reply == [kind |-> "reply", bytes |-> <<>>]
MarkerLine == echoMarkerConnected \o <<LF>>

ProcScripts ==
  { <<>>,
    <<Reply>>,
    <<W(MarkerLine), Reply>>,
    <<W(<<"a", LF>>), Reply, W(<<"b", LF>>)>>,
    <<W(MarkerLine \o <<"a", LF>>), W(<<"b", LF>>)>>,
    <<W(echoMarkerConnected \o <<CR, LF>>), W(<<"a", LF>>)>>,
    <<W(<<"x">> \o MarkerLine)>>,
    <<W(echoMarkerConnected \o <<"x", LF>>)>>,
    <<W(SubSeq(echoMarkerConnected, 1, 12) \o <<LF>>)>>,
    <<W(echoMarkerConnected)>>,
    <<W(Repeat("x", MaxScanTokenSize)), W(<<LF>> \o MarkerLine)>>,
    <<W(<<"a">>), W(MarkerLine)>> }

\* What the external process writes to its stderr.
ProcErrTexts == {<<>>, <<"E">>}

NoErr == [kind |-> "nil", text |-> <<>>]
Err(k) == [kind |-> k, text |-> <<>>]

(***************************************************************************)
(* Transport modes (transport mode source file).                           *)
(***************************************************************************)
\* One character of a string.
Ch(s, i) == SubSeq(s, i, i)

\* strings.HasPrefix, strings.TrimPrefix
HasPrefix(s, prefix) ==
  Len(prefix) <= Len(s) /\ SubSeq(s, 1, Len(prefix)) = prefix
TrimPrefix(s, prefix) ==
  IF HasPrefix(s, prefix) THEN SubSeq(s, Len(prefix) + 1, Len(s)) ELSE s

TransportModeKindSSHLib == "ssh-lib"
TransportModeKindSSHBin == "ssh-bin"
TransportModeKindCustom == "custom"

DefaultSSHShellCommand ==
  "ssh -o 'BatchMode=yes' ${NLPORT:+-p ${NLPORT}} ${NLUSER:+${NLUSER}@}${NLHOST} /bin/sh"

\* A *TransportMode with the error returned along with it; kind "" is nil.
NilMode == [err |-> FALSE, kind |-> "", customCommand |-> ""]
Mode(kind, cmd) == [err |-> FALSE, kind |-> kind, customCommand |-> cmd]
InvalidMode == [err |-> TRUE, kind |-> "", customCommand |-> ""]

\* Faulty variant: the custom case tests for the kind without its colon.
CustomPrefixNoColon == TransportModeKindCustom

\* customPrefix := fmt.Sprintf("%s:", TransportModeKindCustom)
customPrefix == TransportModeKindCustom \o ":"

ParseTransportMode(spec) ==
  IF spec = TransportModeKindSSHLib THEN Mode(TransportModeKindSSHLib, "")
  ELSE IF spec = TransportModeKindSSHBin THEN Mode(TransportModeKindSSHBin, "")
  ELSE IF HasPrefix(spec, customPrefix)
    THEN Mode(TransportModeKindCustom, TrimPrefix(spec, customPrefix))
  ELSE InvalidMode

\* Faulty variant: the custom command whatever the kind.
CustomShellCommandNoSwitch(m) == m.customCommand

CustomShellCommand(m) ==
  CASE m.kind = TransportModeKindSSHLib -> ""
    [] m.kind = TransportModeKindSSHBin -> DefaultSSHShellCommand
    [] m.kind = TransportModeKindCustom -> m.customCommand

NewTransportModeSSHLib == Mode(TransportModeKindSSHLib, "")
NewTransportModeSSHBin == Mode(TransportModeKindSSHBin, "")
NewTransportModeCustom(customCommand) ==
  Mode(TransportModeKindCustom, customCommand)

\* Faulty variant: the kind alone, whatever the kind.
StringKindOnly(m) == m.kind

\* func (m *TransportMode) String() string
String(m) ==
  CASE m.kind \in {TransportModeKindSSHLib, TransportModeKindSSHBin} -> m.kind
    [] m.kind = TransportModeKindCustom -> m.kind \o ":" \o m.customCommand
    [] OTHER -> "invalid"

(***************************************************************************)
(* State.                                                                  *)
(***************************************************************************)
VARIABLES
  transportSpec,   \* the transport option's value, given to ParseTransportMode
  mode,            \* the caller's mode: parsed, or built by a constructor
  modeString,      \* what mode.String() returned; "" before it is called
  reparsed,        \* what ParseTransportMode returned for modeString
  shellCommand,    \* s.params.ShellCommand
  envOverride,     \* s.params.EnvOverride
  osEnv,           \* the process environment, read by os.Getenv
  cmdFields,       \* doConnect's cmdFields, the argument vector it runs
  callerPc,        \* position of the caller of Connect
  receiving,       \* the consumer has begun to receive from resCh
  mainPc,          \* position of the doConnect goroutine
  res,             \* doConnect's named result: [conn, err]
  resCh,           \* the updates received from resCh so far, in order
  elapsed,         \* clock ticks since doConnect entered its select
  readerPc,        \* position of the stdout reader goroutine
  scanBuf,         \* bufio.Scanner: bytes read from rawStdout, not yet consumed
  connErr,         \* the value the reader is sending on connErrCh
  stderrBytes,     \* io.ReadAll(stderr): bytes accumulated so far
  copyBuf,         \* io.Copy: the chunk being written to clientStdoutW
  clientStdoutWClosed, \* clientStdoutW.Close() has run
  clientGot,       \* bytes the consumer has read from Conn.Stdout()
  clientEOF,       \* the consumer has read end-of-stream from Conn.Stdout()
  closePc,         \* Close: 0 not called, k about to take its k-th step
  closePc2,        \* the same for a second call of Close on the same Conn
  stdinClosed,     \* s.stdin.Close() has run
  ctxCancelled,    \* s.ctxCancel() has run
  procAlive,       \* the started process is running
  procScript,      \* what the process still has to do with its stdout
  procErr,         \* what the process still has to write to stderr
  procStdinOpen,   \* the process holds the read end of the stdin pipe
  procStdoutOpen,  \* the process holds the write end of the stdout pipe
  descAlive,       \* a descendant that inherited stdout and stderr is running
  stdinPipe,       \* bytes written to the stdin pipe, not yet read
  rawStdout,       \* bytes in the stdout pipe, not yet read
  stderrPipe,      \* bytes in the stderr pipe, not yet read
  hist             \* history: what happened, for stating the properties

vars ==
  <<transportSpec, mode, modeString, reparsed, shellCommand, envOverride,
    osEnv, cmdFields, callerPc, receiving, mainPc, res, resCh, elapsed, readerPc,
    scanBuf, connErr, stderrBytes, copyBuf, clientStdoutWClosed, clientGot,
    clientEOF, closePc, closePc2, stdinClosed, ctxCancelled, procAlive, procScript,
    procErr, procStdinOpen, procStdoutOpen, descAlive, stdinPipe, rawStdout,
    stderrPipe, hist>>

cmdVars ==
  <<transportSpec, mode, modeString, reparsed, shellCommand, envOverride,
    osEnv, cmdFields>>
callerVars == <<callerPc, receiving>>
mainVars == <<mainPc, res, resCh, elapsed>>
readerVars ==
  <<readerPc, scanBuf, connErr, stderrBytes, copyBuf, clientStdoutWClosed>>
clientVars == <<clientGot, clientEOF>>
closeVars == <<closePc, closePc2, stdinClosed, ctxCancelled>>
procVars ==
  <<procAlive, procScript, procErr, procStdinOpen, procStdoutOpen, descAlive>>
pipeVars == <<stdinPipe, rawStdout, stderrPipe>>

HistInit ==
  [ started |-> FALSE,      \* cmd.Start() succeeded
    markerWritten |-> FALSE, \* the handshake line was written to stdin
    writeFailed |-> FALSE,  \* the write of the handshake line failed
    procWrote |-> <<>>,     \* every byte the process wrote to stdout
    outInTime |-> <<>>,     \* ... those written before the timeout elapsed
    errWrote |-> <<>>,      \* every byte the process wrote to stderr
    scanRead |-> <<>>,      \* every byte the scanner read from rawStdout
    consumed |-> 0,         \* bytes of stdout the scanner consumed as lines
    markerSeen |-> FALSE,   \* the reader's comparison with the marker matched
    sawEOF |-> FALSE,       \* the scanner met EOF before doConnect decided
    sawEOFInTime |-> FALSE, \* ... and before the timeout elapsed
    selectGot |-> "none",   \* which case the select took
    stderrRead |-> FALSE,   \* the handshake has read from stderr
    killed |-> FALSE,       \* the process was killed by the context
    closeFailed |-> FALSE,  \* a call of Close panicked
    closeOrder |-> <<>> ]   \* the steps of Close, in the order taken

\* The state before the transport option is parsed, for given inputs.
InitWith(specs, overrides, envs) ==
  /\ transportSpec \in specs
  /\ mode = NilMode
  /\ modeString = ""
  /\ reparsed = NilMode
  /\ shellCommand = ""
  /\ envOverride \in overrides
  /\ osEnv \in envs
  /\ cmdFields = <<>>
  /\ callerPc = "init"
  /\ receiving = FALSE
  /\ mainPc = "idle"
  /\ res = [conn |-> FALSE, err |-> NoErr]
  /\ resCh = <<>>
  /\ elapsed = 0
  /\ readerPc = "idle"
  /\ scanBuf = <<>>
  /\ connErr = NoErr
  /\ stderrBytes = <<>>
  /\ copyBuf = <<>>
  /\ clientStdoutWClosed = FALSE
  /\ clientGot = <<>>
  /\ clientEOF = FALSE
  /\ closePc = 0
  /\ closePc2 = 0
  /\ stdinClosed = FALSE
  /\ ctxCancelled = FALSE
  /\ procAlive = FALSE
  /\ procScript = <<>>
  /\ procErr = <<>>
  /\ procStdinOpen = FALSE
  /\ procStdoutOpen = FALSE
  /\ descAlive = FALSE
  /\ stdinPipe = <<>>
  /\ rawStdout = <<>>
  /\ stderrPipe = <<>>
  /\ hist = HistInit

\* The runs that go on to the handshake: one host, no port, no user.
Init ==
  InitWith(ConnectSpecs, {[n \in {"NLHOST"} |-> "h"]},
           {[n \in VarNames |-> ""]})

\* The runs that parse and expand every transport spec in every environment.
CmdInit == InitWith(TransportSpecs, EnvOverrides, OsEnvs)

\* The runs that parse, build and print modes: the environment plays no part.
ModeInit ==
  InitWith(TransportSpecs, {[n \in {"NLHOST"} |-> "h"]},
           {[n \in VarNames |-> ""]})

(***************************************************************************)
(* shell.Fields and the variable lookup doConnect gives it.                *)
(***************************************************************************)
\* Faulty variant: the lookup asks the process environment first.
LookupEnvFirst(varName) ==
  IF varName \in DOMAIN osEnv /\ osEnv[varName] # ""
    THEN osEnv[varName]
    ELSE IF varName \in DOMAIN envOverride THEN envOverride[varName] ELSE ""

\* Faulty variant: an empty entry of EnvOverride is passed over.
LookupSkippingEmpty(varName) ==
  IF varName \in DOMAIN envOverride /\ envOverride[varName] # ""
    THEN envOverride[varName]
    ELSE IF varName \in DOMAIN osEnv THEN osEnv[varName] ELSE ""

\* func(varName string) string: the entry of EnvOverride if there is one,
\* os.Getenv(varName) otherwise.
Lookup(varName) ==
  IF varName \in DOMAIN envOverride
    THEN envOverride[varName]
    ELSE IF varName \in DOMAIN osEnv THEN osEnv[varName] ELSE ""

NameChars ==
  LET cs == "ABCDEFGHIJKLMNOPQRSTUVWXYZabcdefghijklmnopqrstuvwxyz0123456789_"
  IN {Ch(cs, i) : i \in 1..Len(cs)}

\* Characters that end a word and are no word themselves.
MetaChars == {";", "&", "|", "(", ")", "<", ">"}

\* The index after the variable name that starts at index i of s.
NameEnd(s, i) ==
  CHOOSE j \in i..(Len(s) + 1) :
    /\ j = Len(s) + 1 \/ Ch(s, j) \notin NameChars
    /\ \A k \in i..(j - 1) : Ch(s, k) \in NameChars

\* The expansion of a command is a sequence of characters, each marked as
\* quoted or not; Mark stands for a pair of quotes, which makes a field even
\* when nothing is between them.
Lit(str, q) == [i \in 1..Len(str) |-> [c |-> Ch(str, i), q |-> q]]
Mark == [c |-> "", q |-> TRUE]
Retag(items, q) ==
  LET sel == SelectSeq(items, LAMBDA x : x.c # "")
  IN [k \in 1..Len(sel) |-> [c |-> sel[k].c, q |-> q]]

\* Faulty variant: ${X:-d} and ${X:+a} test whether X is non-empty the
\* wrong way round.
UseWordInverted(op, val) ==
  (op = "-" /\ val # "") \/ (op = "+" /\ val = "")

\* ${X:-word} uses word when X is unset or empty, ${X:+word} when X is set
\* and not empty.
UseWord(op, val) ==
  (op = "-" /\ val = "") \/ (op = "+" /\ val # "")

\* The expansion reads the command from left to right. It is at the top
\* level, or inside double quotes ("dq"), or inside the word of ${X:-word} or
\* ${X:+word} ("arg"); st is the stack of the constructs that are open, out
\* the expansion so far.
Expanded(i, st, out) == [err |-> FALSE, i |-> i, st |-> st, out |-> out]
ExpandFail == [err |-> TRUE, i |-> 0, st |-> <<>>, out |-> <<>>]
DqFrame == [md |-> "dq", keep |-> TRUE, q |-> TRUE, from |-> 0, alt |-> <<>>]
ArgFrame(keep, q, from, alt) ==
  [md |-> "arg", keep |-> keep, q |-> q, from |-> from, alt |-> alt]
Pop(st) == SubSeq(st, 1, Len(st) - 1)

\* The parameter expansion that starts with the "$" at index i of s.
ExpandParam(s, i, st, out, q) ==
  LET n == Len(s) IN
  IF i + 1 > n THEN Expanded(i + 1, st, out \o Lit("$", q))
  ELSE IF Ch(s, i + 1) = "(" THEN ExpandFail
  ELSE IF Ch(s, i + 1) = "{" THEN
    LET j == NameEnd(s, i + 2)
        val == Lookup(SubSeq(s, i + 2, j - 1))
    IN
    IF j = i + 2 \/ j > n THEN ExpandFail
    ELSE IF Ch(s, j) = "}" THEN Expanded(j + 1, st, out \o Lit(val, q))
    ELSE IF Ch(s, j) = ":" /\ j + 1 <= n /\ Ch(s, j + 1) \in {"-", "+"} THEN
      Expanded(j + 2,
               Append(st, ArgFrame(UseWord(Ch(s, j + 1), val), q, Len(out) + 1,
                                   IF Ch(s, j + 1) = "-"
                                     THEN Lit(val, q) ELSE <<>>)),
               out)
    ELSE ExpandFail
  ELSE IF Ch(s, i + 1) \in NameChars THEN
    LET j == NameEnd(s, i + 1)
    IN Expanded(j, st, out \o Lit(Lookup(SubSeq(s, i + 1, j - 1)), q))
  ELSE Expanded(i + 1, st, out \o Lit("$", q))

\* One step of the expansion, at index i of s.
ExpandStep(s, i, st, out) ==
  LET c == Ch(s, i)
      md == IF st = <<>> THEN "top" ELSE st[Len(st)].md
      f == st[Len(st)]
      closing == {k \in (i + 1)..Len(s) : Ch(s, k) = "'"}
      k == CHOOSE x \in closing : \A y \in closing : x <= y
  IN
  IF md = "arg" /\ c = "}" THEN
    Expanded(i + 1, Pop(st),
             SubSeq(out, 1, f.from - 1)
             \o (IF f.keep THEN Retag(SubSeq(out, f.from, Len(out)), f.q)
                 ELSE f.alt))
  ELSE IF md = "dq" /\ c = "\"" THEN Expanded(i + 1, Pop(st), out)
  ELSE IF c = "'" /\ md # "dq" THEN
    (IF closing = {} THEN ExpandFail
     ELSE Expanded(k + 1, st,
                   out \o <<Mark>> \o Lit(SubSeq(s, i + 1, k - 1), TRUE)))
  ELSE IF c = "\"" /\ md # "dq" THEN
    Expanded(i + 1, Append(st, DqFrame), out \o <<Mark>>)
  ELSE IF c = "$" THEN ExpandParam(s, i, st, out, md = "dq")
  ELSE IF c \in MetaChars /\ md = "top" THEN ExpandFail
  ELSE Expanded(i + 1, st, out \o <<[c |-> c, q |-> md = "dq"]>>)

\* The states of the expansion: the command, the index reached, the stack
\* of open constructs and the expansion so far.
ExpandItems == [c : STRING, q : BOOLEAN]
ExpandFrames ==
  [md : {"dq", "arg"}, keep : BOOLEAN, q : BOOLEAN, from : Nat,
   alt : Seq(ExpandItems)]
ExpandStates ==
  [s : STRING, i : Nat, st : Seq(ExpandFrames), out : Seq(ExpandItems)]

\* The expansion of x.s from index x.i on; a construct left open at the end
\* of the command is an error.
Expand[x \in ExpandStates] ==
  IF x.i > Len(x.s)
    THEN (IF x.st = <<>> THEN Expanded(x.i, x.st, x.out) ELSE ExpandFail)
    ELSE LET step == ExpandStep(x.s, x.i, x.st, x.out) IN
           IF step.err THEN ExpandFail
           ELSE Expand[[s |-> x.s, i |-> step.i, st |-> step.st,
                        out |-> step.out]]

\* Field splitting: the unquoted blanks separate the fields. x.cur is the
\* field being read, x.has whether there is one.
SplitStates ==
  [items : Seq(ExpandItems), i : Nat, cur : STRING, has : BOOLEAN]

SplitFields[x \in SplitStates] ==
  IF x.i > Len(x.items) THEN (IF x.has THEN <<x.cur>> ELSE <<>>)
  ELSE IF x.items[x.i].c = " " /\ ~x.items[x.i].q
    THEN (IF x.has THEN <<x.cur>> ELSE <<>>)
         \o SplitFields[[items |-> x.items, i |-> x.i + 1, cur |-> "",
                         has |-> FALSE]]
    ELSE SplitFields[[items |-> x.items, i |-> x.i + 1,
                      cur |-> x.cur \o x.items[x.i].c, has |-> TRUE]]

\* shell.Fields(cmd, Lookup): a parse error, or the fields.
ShellFields(cmd) ==
  LET e == Expand[[s |-> cmd, i |-> 1, st |-> <<>>, out |-> <<>>]] IN
    IF e.err THEN [err |-> TRUE, fields |-> <<>>]
    ELSE [err |-> FALSE,
          fields |-> SplitFields[[items |-> e.out, i |-> 1, cur |-> "",
                                  has |-> FALSE]]]

(***************************************************************************)
(* The caller: from the transport option to the transport.                 *)
(***************************************************************************)
\* ParseTransportMode(transportSpec): an invalid spec is rejected here.
ParseMode ==
  /\ callerPc = "init"
  /\ mode' = ParseTransportMode(transportSpec)
  /\ callerPc' = IF ParseTransportMode(transportSpec).err
                   THEN "rejected" ELSE "parsed"
  /\ UNCHANGED <<transportSpec, modeString, reparsed, shellCommand,
                 envOverride, osEnv, cmdFields,
                 receiving, mainVars, readerVars, clientVars, closeVars,
                 procVars, pipeVars, hist>>

\* The caller builds the mode with a constructor instead of parsing a spec;
\* the string it has is the custom command.
BuildMode ==
  /\ callerPc = "init"
  /\ mode' \in {NewTransportModeSSHLib, NewTransportModeSSHBin,
                NewTransportModeCustom(transportSpec)}
  /\ callerPc' = "built"
  /\ UNCHANGED <<transportSpec, modeString, reparsed, shellCommand,
                 envOverride, osEnv, cmdFields,
                 receiving, mainVars, readerVars, clientVars, closeVars,
                 procVars, pipeVars, hist>>

\* mode.String(), on a mode that was parsed or built.
PrintMode ==
  /\ callerPc \in {"parsed", "built"}
  /\ modeString' = String(mode)
  /\ callerPc' = IF callerPc = "built" THEN "builtPrinted" ELSE "printed"
  /\ UNCHANGED <<transportSpec, mode, reparsed, shellCommand,
                 envOverride, osEnv, cmdFields,
                 receiving, mainVars, readerVars, clientVars, closeVars,
                 procVars, pipeVars, hist>>

\* ParseTransportMode(mode.String())
ReparseMode ==
  /\ callerPc \in {"printed", "builtPrinted"}
  /\ reparsed' = ParseTransportMode(modeString)
  /\ callerPc' = IF callerPc = "builtPrinted" THEN "builtReparsed"
                                              ELSE "reparsed"
  /\ UNCHANGED <<transportSpec, mode, modeString, shellCommand,
                 envOverride, osEnv, cmdFields,
                 receiving, mainVars, readerVars, clientVars, closeVars,
                 procVars, pipeVars, hist>>

\* mode.CustomShellCommand()
GetCustomShellCommand ==
  /\ callerPc = "parsed"
  /\ shellCommand' = CustomShellCommand(mode)
  /\ callerPc' = "command"
  /\ UNCHANGED <<transportSpec, mode, modeString, reparsed, envOverride,
                 osEnv, cmdFields,
                 receiving, mainVars, readerVars, clientVars, closeVars,
                 procVars, pipeVars, hist>>

\* NewShellTransportCustomCmd(params), for the kinds that run a command.
NewTransport ==
  /\ callerPc = "command"
  /\ mode.kind # TransportModeKindSSHLib
  /\ callerPc' = "idle"
  /\ UNCHANGED <<cmdVars, receiving, mainVars, readerVars, clientVars,
                 closeVars, procVars, pipeVars, hist>>

(***************************************************************************)
(* Connect and the consumer of resCh.                                      *)
(***************************************************************************)
\* Faulty variant: Connect calls s.doConnect(resCh) itself, without "go", and
\* returns when doConnect has returned.
ConnectReturnsAfterDoConnect == mainPc = "done"

\* "go s.doConnect(resCh)" does not wait for the goroutine it starts: Connect
\* can return as soon as the go statement has run.
ConnectReturns == mainPc # "idle"

\* The caller calls Connect(resCh); the go statement starts doConnect.
ConnectCall ==
  /\ callerPc = "idle"
  /\ callerPc' = "inConnect"
  /\ mainPc' = "parse"
  /\ UNCHANGED <<cmdVars, receiving, res, resCh, elapsed, readerVars,
                 clientVars, closeVars, procVars, pipeVars, hist>>

\* Connect returns to its caller.
ConnectReturn ==
  /\ callerPc = "inConnect"
  /\ ConnectReturns
  /\ callerPc' = "returned"
  /\ UNCHANGED <<cmdVars, receiving, mainVars, readerVars, clientVars,
                 closeVars, procVars, pipeVars, hist>>

\* The consumer begins to receive from resCh, and goes on receiving. resCh
\* is the caller's channel: a send on it waits for the consumer.
StartReceiving ==
  /\ ~receiving
  /\ receiving' = TRUE
  /\ UNCHANGED <<cmdVars, callerPc, mainVars, readerVars, clientVars,
                 closeVars, procVars, pipeVars, hist>>

(***************************************************************************)
(* doConnect (the goroutine started by Connect).                           *)
(***************************************************************************)
\* Faulty variant: a debug update that also carries a Result.
DebugUpdateWithResult(msg) ==
  [kind |-> "result", msg |-> msg, conn |-> FALSE, err |-> NoErr]

DebugUpdate(msg) == [kind |-> "debug", msg |-> msg, conn |-> FALSE, err |-> NoErr]

\* The deferred function: resCh <- ShellConnUpdate{Result: &res}
ResultUpdate(r) == [kind |-> "result", msg |-> "", conn |-> r.conn, err |-> r.err]

\* Faulty variant: the success path forgets to set res.Conn.
ConnResultUnset == [conn |-> FALSE, err |-> NoErr]

\* The result of the select's connErrCh case.
ConnResult == [conn |-> TRUE, err |-> NoErr]
ConnErrResult(e) == [conn |-> FALSE, err |-> e]

\* Faulty variant: the select has no timeout case.
TimeoutNever == FALSE

\* Faulty variant: the timeout case forgets to set res.Err.
TimeoutResultNoErr == [conn |-> FALSE, err |-> NoErr]

\* The timer of the select's time.After(connectionTimeout) case has fired.
TimeoutReady == elapsed >= connectionTimeout

\* res.Err = errors.New("timeout waiting for SSH connection marker")
TimeoutResult == [conn |-> FALSE, err |-> Err("timeout")]

Decided == mainPc \in {"debug3", "sendResult", "done"}

\* Faulty variant: the error branches of the parse lack their "return res",
\* and doConnect goes on to its first debug update.
ParseErrorFallsThrough == "debug1"

\* "return res" in the error branches of the parse: what runs next is the
\* deferred function, which sends res.
ParseErrorReturn == "sendResult"

\* shell.Fields fails: res.Err is set, the deferred function sends res.
ParseFail ==
  /\ mainPc = "parse"
  /\ ShellFields(shellCommand).err
  /\ res' = [conn |-> FALSE, err |-> Err("parse")]
  /\ mainPc' = ParseErrorReturn
  /\ UNCHANGED <<cmdVars, callerVars,
                 resCh, elapsed, readerVars, clientVars,
                 closeVars, procVars, pipeVars, hist>>

\* len(cmdFields) == 0
ParseEmpty ==
  /\ mainPc = "parse"
  /\ ~ShellFields(shellCommand).err
  /\ Len(ShellFields(shellCommand).fields) = 0
  /\ res' = [conn |-> FALSE, err |-> Err("empty")]
  /\ mainPc' = ParseErrorReturn
  /\ UNCHANGED <<cmdVars, callerVars,
                 resCh, elapsed, readerVars, clientVars,
                 closeVars, procVars, pipeVars, hist>>

ParseOk ==
  /\ mainPc = "parse"
  /\ ~ShellFields(shellCommand).err
  /\ Len(ShellFields(shellCommand).fields) > 0
  /\ cmdFields' = ShellFields(shellCommand).fields
  /\ mainPc' = "debug1"
  /\ UNCHANGED <<transportSpec, mode, modeString, reparsed, shellCommand,
                 envOverride, osEnv,
                 callerVars, res, resCh, elapsed, readerVars, clientVars,
                 closeVars, procVars, pipeVars, hist>>

\* resCh <- "Trying to connect using external command"
SendDebug1 ==
  /\ mainPc = "debug1"
  /\ receiving
  /\ resCh' = Append(resCh, DebugUpdate("trying"))
  /\ mainPc' = "start"
  /\ UNCHANGED <<cmdVars, callerVars,
                 res, elapsed, readerVars, clientVars,
                 closeVars, procVars, pipeVars, hist>>

\* cmd.StdinPipe / StdoutPipe / StderrPipe / Start fails.
StartFail ==
  /\ mainPc = "start"
  /\ \E k \in {"stdinPipe", "stdoutPipe", "stderrPipe", "start"} :
       res' = [conn |-> FALSE, err |-> Err(k)]
  /\ mainPc' = "sendResult"
  /\ UNCHANGED <<cmdVars, callerVars,
                 resCh, elapsed, readerVars, clientVars,
                 closeVars, procVars, pipeVars, hist>>

\* cmd.Start() succeeds: the process runs, holding its ends of the pipes.
StartOk ==
  /\ mainPc = "start"
  /\ procAlive' = TRUE
  /\ procScript' \in ProcScripts
  /\ procErr' \in ProcErrTexts
  /\ descAlive' \in BOOLEAN
  /\ procStdinOpen' = TRUE
  /\ procStdoutOpen' = TRUE
  /\ hist' = [hist EXCEPT !.started = TRUE]
  /\ mainPc' = "debug2"
  /\ UNCHANGED <<cmdVars, callerVars,
                 res, resCh, elapsed, readerVars, clientVars,
                 closeVars, pipeVars>>

\* resCh <- "Command started, writing echo __CONNECTED__"
SendDebug2 ==
  /\ mainPc = "debug2"
  /\ receiving
  /\ resCh' = Append(resCh, DebugUpdate("started"))
  /\ mainPc' = "writeMarker"
  /\ UNCHANGED <<cmdVars, callerVars,
                 res, elapsed, readerVars, clientVars,
                 closeVars, procVars, pipeVars, hist>>

\* Faulty variant: the error of the write is dropped.
WriteMarkerErrDropped == [conn |-> FALSE, err |-> NoErr]

\* res.Err = errors.Annotatef(err, "writing connection marker")
WriteMarkerErrResult == [conn |-> FALSE, err |-> Err("writeMarker")]

\* fmt.Fprintf(stdin, "echo %s\n", marker) fails: nobody holds the read end.
WriteMarkerFail ==
  /\ mainPc = "writeMarker"
  /\ ~procStdinOpen
  /\ res' = WriteMarkerErrResult
  /\ mainPc' = "sendResult"
  /\ hist' = [hist EXCEPT !.writeFailed = TRUE]
  /\ UNCHANGED <<cmdVars, callerVars,
                 resCh, elapsed, readerVars, clientVars,
                 closeVars, procVars, pipeVars>>

\* The write succeeds; the reader goroutine is started; doConnect enters its
\* select and the timer starts.
WriteMarkerOk ==
  /\ mainPc = "writeMarker"
  /\ procStdinOpen
  /\ stdinPipe' = stdinPipe \o HandshakeLine
  /\ readerPc' = "scan"
  /\ mainPc' = "select"
  /\ elapsed' = 0
  /\ hist' = [hist EXCEPT !.markerWritten = TRUE]
  /\ UNCHANGED <<cmdVars, callerVars,
                 res, resCh, scanBuf, connErr, stderrBytes,
                 copyBuf, clientStdoutWClosed, clientVars, closeVars, procVars,
                 rawStdout, stderrPipe>>

\* The reader goroutine waits for the process: for bytes or EOF on stdout, or
\* for bytes or EOF on stderr.
ReaderBlocked ==
  \/ /\ readerPc = "scan"
     /\ \A i \in 1..Len(scanBuf) : scanBuf[i] # LF
     /\ Len(scanBuf) < MaxScanTokenSize
     /\ rawStdout = <<>>
     /\ (procStdoutOpen \/ descAlive)
  \/ /\ readerPc = "readStderr"
     /\ stderrPipe = <<>>
     /\ (procAlive \/ descAlive)

\* Time passes while doConnect waits in the select. The goroutines are fast
\* against the clock: a tick passes only while the reader waits for the
\* process, and a fired timer is taken by the select at once.
Tick ==
  /\ mainPc = "select"
  /\ elapsed < MaxWait
  /\ ~TimeoutReady
  /\ ReaderBlocked
  /\ elapsed' = elapsed + 1
  /\ UNCHANGED <<cmdVars, callerVars,
                 mainPc, res, resCh, readerVars, clientVars,
                 closeVars, procVars, pipeVars, hist>>

\* case err := <-connErrCh, err == nil: the reader goes on to io.Copy.
SelectConnected ==
  /\ mainPc = "select"
  /\ readerPc = "sendNil"
  /\ readerPc' = "copy"
  /\ mainPc' = "debug3"
  /\ hist' = [hist EXCEPT !.selectGot = "nil"]
  /\ UNCHANGED <<cmdVars, callerVars,
                 res, resCh, elapsed, scanBuf, connErr,
                 stderrBytes, copyBuf, clientStdoutWClosed, clientVars,
                 closeVars, procVars, pipeVars>>

\* case err := <-connErrCh, err != nil: the reader returns, and its deferred
\* clientStdoutW.Close() runs.
SelectConnErr ==
  /\ mainPc = "select"
  /\ readerPc = "sendErr"
  /\ res' = ConnErrResult(connErr)
  /\ readerPc' = "done"
  /\ clientStdoutWClosed' = TRUE
  /\ mainPc' = "sendResult"
  /\ hist' = [hist EXCEPT !.selectGot = "err"]
  /\ UNCHANGED <<cmdVars, callerVars,
                 resCh, elapsed, scanBuf, connErr, stderrBytes,
                 copyBuf, clientVars, closeVars, procVars, pipeVars>>

\* case <-time.After(connectionTimeout)
SelectTimeout ==
  /\ mainPc = "select"
  /\ TimeoutReady
  /\ res' = TimeoutResult
  /\ mainPc' = "sendResult"
  /\ hist' = [hist EXCEPT !.selectGot = "timeout"]
  /\ UNCHANGED <<cmdVars, callerVars,
                 resCh, elapsed, readerVars, clientVars,
                 closeVars, procVars, pipeVars>>

\* resCh <- "Got the marker, connected successfully"; res.Conn = &ShellConnCustomCmd{...}
SendDebug3 ==
  /\ mainPc = "debug3"
  /\ receiving
  /\ resCh' = Append(resCh, DebugUpdate("connected"))
  /\ res' = ConnResult
  /\ mainPc' = "sendResult"
  /\ UNCHANGED <<cmdVars, callerVars,
                 elapsed, readerVars, clientVars, closeVars,
                 procVars, pipeVars, hist>>

\* The deferred function sends the Result; doConnect returns.
SendResult ==
  /\ mainPc = "sendResult"
  /\ receiving
  /\ resCh' = Append(resCh, ResultUpdate(res))
  /\ mainPc' = "done"
  /\ UNCHANGED <<cmdVars, callerVars,
                 res, elapsed, readerVars, clientVars,
                 closeVars, procVars, pipeVars, hist>>

\* The consumer holds a Conn.
HasConn == mainPc = "done" /\ res.conn

(***************************************************************************)
(* The stdout reader goroutine of doConnect.                               *)
(***************************************************************************)
\* Faulty variant: strings.HasPrefix(line, echoMarkerConnected)
LineIsMarkerPrefix(line) == IsPrefix(echoMarkerConnected, line)

\* line == echoMarkerConnected
LineIsMarker(line) == line = echoMarkerConnected

\* All write ends of the stdout pipe are closed: a read of the empty pipe
\* returns EOF.  (The parent's copy is closed by cmd.Start.)
StdoutClosed == ~procStdoutOpen /\ ~descAlive
\* The process closes its stderr only by exiting.
StderrClosed == ~procAlive /\ ~descAlive

\* scanner.Scan() finds a line feed in its buffer: the line up to it, less a
\* trailing carriage return, is the token; the reader compares it.
ScanToken ==
  /\ readerPc = "scan"
  /\ IndexOf(scanBuf, LF) > 0
  /\ LET i == IndexOf(scanBuf, LF)
         line == dropCR(SubSeq(scanBuf, 1, i - 1))
     IN /\ scanBuf' = Drop(scanBuf, i)
        /\ readerPc' = IF LineIsMarker(line) THEN "sendNil" ELSE "scan"
        /\ connErr' = NoErr
        /\ hist' = [hist EXCEPT !.consumed = @ + i,
                                !.markerSeen = @ \/ LineIsMarker(line)]
  /\ UNCHANGED <<cmdVars, callerVars, mainVars, stderrBytes, copyBuf,
                 clientStdoutWClosed, clientVars, closeVars, procVars, pipeVars>>

\* scanner.Scan() needs more data: it reads what the pipe holds, as far as
\* the buffer has room.
ScanRead ==
  /\ readerPc = "scan"
  /\ IndexOf(scanBuf, LF) = 0
  /\ Len(scanBuf) < MaxScanTokenSize
  /\ rawStdout # <<>>
  /\ LET n == Min(Len(rawStdout), MaxScanTokenSize - Len(scanBuf)) IN
       /\ scanBuf' = scanBuf \o SubSeq(rawStdout, 1, n)
       /\ rawStdout' = Drop(rawStdout, n)
       /\ hist' = [hist EXCEPT !.scanRead = @ \o SubSeq(rawStdout, 1, n)]
  /\ UNCHANGED <<cmdVars, callerVars,
                 mainVars, readerPc, connErr, stderrBytes,
                 copyBuf, clientStdoutWClosed, clientVars, closeVars, procVars,
                 stdinPipe, stderrPipe>>

\* The buffer is full and holds no line feed: bufio.ErrTooLong; scanner.Err()
\* is not nil and the reader reports it.
ScanTooLong ==
  /\ readerPc = "scan"
  /\ IndexOf(scanBuf, LF) = 0
  /\ Len(scanBuf) >= MaxScanTokenSize
  /\ connErr' = Err("readStdout")
  /\ readerPc' = "sendErr"
  /\ UNCHANGED <<cmdVars, callerVars,
                 mainVars, scanBuf, stderrBytes, copyBuf,
                 clientStdoutWClosed, clientVars, closeVars, procVars, pipeVars,
                 hist>>

\* The read returns EOF. A non-empty rest of the buffer is the last token;
\* without a match scanner.Scan() returns false with scanner.Err() == nil.
ScanEOF ==
  /\ readerPc = "scan"
  /\ IndexOf(scanBuf, LF) = 0
  /\ Len(scanBuf) < MaxScanTokenSize
  /\ rawStdout = <<>>
  /\ StdoutClosed
  /\ LET match == scanBuf # <<>> /\ LineIsMarker(dropCR(scanBuf)) IN
       /\ readerPc' = IF match THEN "sendNil" ELSE "readStderr"
       /\ hist' = [hist EXCEPT !.consumed = @ + Len(scanBuf),
                               !.markerSeen = @ \/ match,
                               !.sawEOF = @ \/ (~match /\ ~Decided),
                               !.sawEOFInTime =
                                 @ \/ (~match /\ ~Decided /\ ~TimeoutReady)]
  /\ scanBuf' = <<>>
  /\ UNCHANGED <<cmdVars, callerVars,
                 mainVars, connErr, stderrBytes, copyBuf,
                 clientStdoutWClosed, clientVars, closeVars, procVars, pipeVars>>

\* Faulty variant: stderr is drained during the passthrough as well.
InReadAllStderrOrCopy == readerPc \in {"readStderr", "copy"}

\* The reader is in io.ReadAll(stderr), the branch taken when the scan ended
\* without a marker and without an error.
InReadAllStderr == readerPc = "readStderr"

\* io.ReadAll(stderr): one read of what the pipe holds.
ReadStderr ==
  /\ InReadAllStderr
  /\ stderrPipe # <<>>
  /\ stderrBytes' = stderrBytes \o stderrPipe
  /\ stderrPipe' = <<>>
  /\ hist' = [hist EXCEPT !.stderrRead = TRUE]
  /\ UNCHANGED <<cmdVars, callerVars,
                 mainVars, readerPc, scanBuf, connErr, copyBuf,
                 clientStdoutWClosed, clientVars, closeVars, procVars,
                 stdinPipe, rawStdout>>

\* io.ReadAll(stderr) meets EOF and returns; the reader builds the error
\* "failed to connect using external command ...: <stderr>".
ReadStderrEOF ==
  /\ InReadAllStderr
  /\ stderrPipe = <<>>
  /\ StderrClosed
  /\ connErr' = [kind |-> "connectFailed", text |-> stderrBytes]
  /\ readerPc' = "sendErr"
  /\ hist' = [hist EXCEPT !.stderrRead = TRUE]
  /\ UNCHANGED <<cmdVars, callerVars,
                 mainVars, scanBuf, stderrBytes, copyBuf,
                 clientStdoutWClosed, clientVars, closeVars, procVars, pipeVars>>

\* io.Copy(clientStdoutW, rawStdout) reads from the pipe itself, not from the
\* scanner: what the scanner still buffers is not copied.
CopyRead ==
  /\ readerPc = "copy"
  /\ rawStdout # <<>>
  /\ copyBuf' = rawStdout
  /\ rawStdout' = <<>>
  /\ readerPc' = "copyWrite"
  /\ UNCHANGED <<cmdVars, callerVars,
                 mainVars, scanBuf, connErr, stderrBytes,
                 clientStdoutWClosed, clientVars, closeVars, procVars,
                 stdinPipe, stderrPipe, hist>>

\* io.Copy meets EOF and returns; the deferred clientStdoutW.Close() runs.
CopyEOF ==
  /\ readerPc = "copy"
  /\ rawStdout = <<>>
  /\ StdoutClosed
  /\ readerPc' = "done"
  /\ clientStdoutWClosed' = TRUE
  /\ UNCHANGED <<cmdVars, callerVars,
                 mainVars, scanBuf, connErr, stderrBytes,
                 copyBuf, clientVars, closeVars, procVars, pipeVars, hist>>

(***************************************************************************)
(* The consumer of the connection.                                         *)
(***************************************************************************)
\* A read from Conn.Stdout() (the read side of the io.Pipe) takes the chunk
\* io.Copy is writing; the write returns.
ClientRead ==
  /\ HasConn
  /\ readerPc = "copyWrite"
  /\ clientGot' = clientGot \o copyBuf
  /\ copyBuf' = <<>>
  /\ readerPc' = "copy"
  /\ UNCHANGED <<cmdVars, callerVars,
                 mainVars, scanBuf, connErr, stderrBytes,
                 clientStdoutWClosed, clientEOF, closeVars, procVars, pipeVars,
                 hist>>

\* A read from Conn.Stdout() returns io.EOF.
ClientReadEOF ==
  /\ HasConn
  /\ clientStdoutWClosed
  /\ ~clientEOF
  /\ clientEOF' = TRUE
  /\ UNCHANGED <<cmdVars, callerVars,
                 mainVars, readerVars, clientGot, closeVars,
                 procVars, pipeVars, hist>>

(***************************************************************************)
(* ShellConnCustomCmd.Close                                                *)
(***************************************************************************)
\* Faulty variant: Close cancels the context before it closes stdin.
CloseStepsCancelFirst == <<"ctxCancel", "stdin.Close">>

\* Faulty variant: Close only closes stdin.
CloseStepsStdinOnly == <<"stdin.Close">>

\* The statements of Close, in program order.
CloseSteps == <<"stdin.Close", "ctxCancel">>

\* The consumer calls Close() on the Conn it holds.
CloseCall ==
  /\ HasConn
  /\ closePc = 0
  /\ closePc' = 1
  /\ UNCHANGED <<cmdVars, callerVars,
                 mainVars, readerVars, clientVars, closePc2, stdinClosed,
                 ctxCancelled, procVars, pipeVars, hist>>

\* Close takes its next statement.
CloseStep ==
  /\ closePc >= 1
  /\ closePc <= Len(CloseSteps)
  /\ stdinClosed' = (stdinClosed \/ CloseSteps[closePc] = "stdin.Close")
  /\ ctxCancelled' = (ctxCancelled \/ CloseSteps[closePc] = "ctxCancel")
  /\ closePc' = closePc + 1
  /\ hist' = [hist EXCEPT !.closeOrder = Append(@, CloseSteps[closePc])]
  /\ UNCHANGED <<cmdVars, callerVars,
                 mainVars, readerVars, clientVars, closePc2, procVars,
                 pipeVars>>

CloseReturned == closePc > Len(CloseSteps)

\* Faulty variant: closing the stdin pipe again, or cancelling again, panics.
RepeatedStepPanics(done) == done

\* A statement of Close whose effect another call has already had. The
\* stdin pipe's Close gives back an error value, which Close drops; a
\* CancelFunc does nothing after its first call. Neither panics.
RepeatedStepFails(done) == FALSE

\* Close() is called again on the same Conn, after the first call was made:
\* while that call is running, or after it has returned.
CloseCallAgain ==
  /\ HasConn
  /\ closePc >= 1
  /\ closePc2 = 0
  /\ closePc2' = 1
  /\ UNCHANGED <<cmdVars, callerVars,
                 mainVars, readerVars, clientVars, closePc, stdinClosed,
                 ctxCancelled, procVars, pipeVars, hist>>

\* The second call takes its next statement.
CloseStepAgain ==
  /\ closePc2 >= 1
  /\ closePc2 <= Len(CloseSteps)
  /\ ~hist.closeFailed
  /\ LET step == CloseSteps[closePc2]
         done == IF step = "stdin.Close" THEN stdinClosed ELSE ctxCancelled
     IN /\ stdinClosed' = (stdinClosed \/ step = "stdin.Close")
        /\ ctxCancelled' = (ctxCancelled \/ step = "ctxCancel")
        /\ hist' = [hist EXCEPT !.closeFailed = RepeatedStepFails(done)]
  /\ closePc2' = closePc2 + 1
  /\ UNCHANGED <<cmdVars, callerVars,
                 mainVars, readerVars, clientVars, closePc, procVars,
                 pipeVars>>

CloseAgainReturned == closePc2 > Len(CloseSteps)

(***************************************************************************)
(* The external process (exec.CommandContext) and its descendants.         *)
(***************************************************************************)
\* The timeout of the select has not elapsed and doConnect has not decided.
InTime == ~Decided /\ ~(mainPc = "select" /\ TimeoutReady)

\* The process writes to its stdout.
ProcWriteStdout ==
  /\ procAlive /\ procStdoutOpen
  /\ procScript # <<>>
  /\ Head(procScript).kind = "write"
  /\ rawStdout' = rawStdout \o Head(procScript).bytes
  /\ procScript' = Tail(procScript)
  /\ hist' = [hist EXCEPT
       !.procWrote = @ \o Head(procScript).bytes,
       !.outInTime = IF InTime THEN @ \o Head(procScript).bytes ELSE @]
  /\ UNCHANGED <<cmdVars, callerVars,
                 mainVars, readerVars, clientVars, closeVars,
                 procAlive, procErr, procStdinOpen, procStdoutOpen, descAlive,
                 stdinPipe, stderrPipe>>

\* The process (a shell) reads the line on its stdin and prints the answer.
ProcReply ==
  /\ procAlive /\ procStdoutOpen /\ procStdinOpen
  /\ procScript # <<>>
  /\ Head(procScript).kind = "reply"
  /\ stdinPipe # <<>>
  /\ rawStdout' = rawStdout \o ShellReply(stdinPipe)
  /\ stdinPipe' = <<>>
  /\ procScript' = Tail(procScript)
  /\ hist' = [hist EXCEPT
       !.procWrote = @ \o ShellReply(stdinPipe),
       !.outInTime = IF InTime THEN @ \o ShellReply(stdinPipe) ELSE @]
  /\ UNCHANGED <<cmdVars, callerVars,
                 mainVars, readerVars, clientVars, closeVars,
                 procAlive, procErr, procStdinOpen, procStdoutOpen, descAlive,
                 stderrPipe>>

\* The process writes to its stderr.
ProcWriteStderr ==
  /\ procAlive
  /\ procErr # <<>>
  /\ stderrPipe' = stderrPipe \o procErr
  /\ procErr' = <<>>
  /\ hist' = [hist EXCEPT !.errWrote = @ \o procErr]
  /\ UNCHANGED <<cmdVars, callerVars,
                 mainVars, readerVars, clientVars, closeVars,
                 procAlive, procScript, procStdinOpen, procStdoutOpen,
                 descAlive, stdinPipe, rawStdout>>

\* The process closes its stdin and goes on running.
ProcCloseStdin ==
  /\ procAlive /\ procStdinOpen
  /\ procStdinOpen' = FALSE
  /\ UNCHANGED <<cmdVars, callerVars,
                 mainVars, readerVars, clientVars, closeVars,
                 procAlive, procScript, procErr, procStdoutOpen, descAlive,
                 pipeVars, hist>>

\* The process closes its stdout and goes on running.
ProcCloseStdout ==
  /\ procAlive /\ procStdoutOpen
  /\ procStdoutOpen' = FALSE
  /\ UNCHANGED <<cmdVars, callerVars,
                 mainVars, readerVars, clientVars, closeVars,
                 procAlive, procScript, procErr, procStdinOpen, descAlive,
                 pipeVars, hist>>

\* The process exits of its own accord; its descriptors are closed.
ProcExit ==
  /\ procAlive
  /\ procAlive' = FALSE
  /\ procStdinOpen' = FALSE
  /\ procStdoutOpen' = FALSE
  /\ UNCHANGED <<cmdVars, callerVars,
                 mainVars, readerVars, clientVars, closeVars,
                 procScript, procErr, descAlive, pipeVars, hist>>

\* exec.CommandContext: once the context is done the process is killed.
WatchCtxKill ==
  /\ procAlive
  /\ ctxCancelled
  /\ procAlive' = FALSE
  /\ procStdinOpen' = FALSE
  /\ procStdoutOpen' = FALSE
  /\ hist' = [hist EXCEPT !.killed = TRUE]
  /\ UNCHANGED <<cmdVars, callerVars,
                 mainVars, readerVars, clientVars, closeVars,
                 procScript, procErr, descAlive, pipeVars>>

\* A descendant of the process that inherited its stdout and stderr exits.
DescExit ==
  /\ descAlive
  /\ descAlive' = FALSE
  /\ UNCHANGED <<cmdVars, callerVars,
                 mainVars, readerVars, clientVars, closeVars,
                 procAlive, procScript, procErr, procStdinOpen, procStdoutOpen,
                 pipeVars, hist>>

(***************************************************************************)
(* Specifications.                                                         *)
(***************************************************************************)
\* The steps from the transport option to the parsed command.
CmdNext ==
  \/ ParseMode \/ GetCustomShellCommand \/ NewTransport
  \/ ConnectCall \/ ConnectReturn \/ StartReceiving
  \/ ParseFail \/ ParseEmpty \/ ParseOk \/ SendResult

\* Parsing, building and printing transport modes.
ModeNext == ParseMode \/ BuildMode \/ PrintMode \/ ReparseMode

Next ==
  \/ ParseMode \/ GetCustomShellCommand \/ NewTransport
  \/ ConnectCall \/ ConnectReturn \/ StartReceiving
  \/ ParseFail \/ ParseEmpty \/ ParseOk
  \/ SendDebug1 \/ StartFail \/ StartOk \/ SendDebug2
  \/ WriteMarkerFail \/ WriteMarkerOk
  \/ Tick \/ SelectConnected \/ SelectConnErr \/ SelectTimeout
  \/ SendDebug3 \/ SendResult
  \/ ScanToken \/ ScanRead \/ ScanTooLong \/ ScanEOF
  \/ ReadStderr \/ ReadStderrEOF \/ CopyRead \/ CopyEOF
  \/ ClientRead \/ ClientReadEOF
  \/ CloseCall \/ CloseStep
  \/ ProcWriteStdout \/ ProcReply \/ ProcWriteStderr
  \/ ProcCloseStdin \/ ProcCloseStdout \/ ProcExit \/ WatchCtxKill \/ DescExit

\* The runs in which Close is called at most once.
Spec == Init /\ [][Next]_vars

\* The runs in which Close may be called a second time.
TwoCloseNext == Next \/ CloseCallAgain \/ CloseStepAgain

TwoCloseSpec == Init /\ [][TwoCloseNext]_vars

CmdSpec == CmdInit /\ [][CmdNext]_vars

ModeSpec == ModeInit /\ [][ModeNext]_vars

\* The scheduling the code relies on: goroutines that can run do run, a
\* consumer that receives from resCh keeps receiving, the clock advances, and
\* exec's context watcher kills the process. Nothing is assumed of the
\* external process, its descendants, a call of Close, or when the consumer
\* begins to receive.
SchedulingFairness ==
  /\ WF_vars(ParseMode) /\ WF_vars(GetCustomShellCommand)
  /\ WF_vars(NewTransport) /\ WF_vars(ConnectCall)
  /\ WF_vars(ConnectReturn)
  /\ WF_vars(ParseFail) /\ WF_vars(ParseEmpty) /\ WF_vars(ParseOk)
  /\ WF_vars(SendDebug1) /\ WF_vars(StartFail \/ StartOk)
  /\ WF_vars(SendDebug2) /\ WF_vars(WriteMarkerFail \/ WriteMarkerOk)
  /\ WF_vars(Tick)
  /\ WF_vars(SelectConnected \/ SelectConnErr \/ SelectTimeout)
  /\ WF_vars(SendDebug3) /\ WF_vars(SendResult)
  /\ WF_vars(ScanToken) /\ WF_vars(ScanRead) /\ WF_vars(ScanTooLong)
  /\ WF_vars(ScanEOF) /\ WF_vars(ReadStderr) /\ WF_vars(ReadStderrEOF)
  /\ WF_vars(CopyRead) /\ WF_vars(CopyEOF)
  /\ WF_vars(CloseStep) /\ WF_vars(WatchCtxKill)

\* The consumer of a Conn keeps reading from Conn.Stdout().
ConsumerFairness == WF_vars(ClientRead) /\ WF_vars(ClientReadEOF)

Fairness == SchedulingFairness /\ ConsumerFairness

FairSpec == Spec /\ Fairness

\* The same scheduling with a consumer that may stop reading Conn.Stdout().
IdleConsumerSpec == Spec /\ SchedulingFairness

(***************************************************************************)
(* Properties.                                                             *)
(***************************************************************************)
\* The Result updates received from resCh.
Results == {resCh[i] : i \in {j \in DOMAIN resCh : resCh[j].kind = "result"}}

ConnDelivered == \E r \in Results : r.conn

\* The lines of a byte stream that are terminated by a line feed.
TerminatedLinesOf(s) ==
  LET ends == {i \in 1..Len(s) : s[i] = LF}
      last == IF ends = {} THEN 0
              ELSE CHOOSE i \in ends : \A j \in ends : j <= i
  IN LinesOf(SubSeq(s, 1, last))

\* C1 (as stated): a Result holds a Conn only if a line exactly equal to
\* __CONNECTED__ was read from the process's stdout; a line that differs from
\* the marker in any character never completes the handshake.
C1_ConnOnlyAfterExactMarkerLine ==
  ConnDelivered => echoMarkerConnected \in LinesOf(hist.scanRead)

\* C1 (amended): a Result holds a Conn only if a line that equals
\* __CONNECTED__ once one trailing carriage return is dropped was read from
\* the process's stdout; a line with any other extra or different character
\* never completes the handshake.
C1_ConnOnlyAfterMarkerLineModCR ==
  ConnDelivered =>
    \E l \in LinesOf(hist.scanRead) : dropCR(l) = echoMarkerConnected

\* C1 witness: a Conn was delivered after the line "__CONNECTED__\r" was read.
C1_Witness ==
  /\ ConnDelivered
  /\ (echoMarkerConnected \o <<CR>>) \in LinesOf(hist.scanRead)

\* A line exactly equal to the marker appeared on the process's stdout
\* before the connection timeout elapsed.
MarkerLineInTime == echoMarkerConnected \in TerminatedLinesOf(hist.outInTime)

\* C2 (as stated): whenever a line exactly equal to __CONNECTED__ appears on
\* the process's stdout before the connection timeout elapses, the Result
\* holds a Conn and no error.
C2_MarkerLineInTimeConnects ==
  \A r \in Results :
    (hist.started /\ MarkerLineInTime) => (r.conn /\ r.err = NoErr)

\* C2 (amended): whenever a line exactly equal to __CONNECTED__ appears on
\* the process's stdout before the connection timeout elapses, the Result
\* holds a Conn and no error, whether the shell printed the line or the
\* command itself did - unless the write of the handshake line to stdin
\* failed (the Result is then that write error), or a line before the marker
\* overflowed the scanner's buffer (the Result is then that read error).
C2_MarkerLineInTimeConnectsUnlessIOError ==
  \A r \in Results :
    (hist.started /\ MarkerLineInTime) =>
      CASE readerPc = "idle" ->
             ~r.conn /\ r.err = Err("writeMarker")
        [] readerPc # "idle" /\ connErr = Err("readStdout") ->
             ~r.conn /\ r.err = Err("readStdout")
        [] OTHER -> r.conn /\ r.err = NoErr

\* C2 witness: a Conn was delivered for a marker line the command printed
\* itself: the handshake line is still unread on the process's stdin.
C2_Witness ==
  /\ ConnDelivered
  /\ MarkerLineInTime
  /\ stdinPipe = HandshakeLine

\* C3: after a successful handshake the bytes read from Conn.Stdout() are
\* exactly the bytes the process wrote to stdout after the end of the marker
\* line: in order, none lost, none duplicated, none from the marker line or
\* before it.
C3_StdoutPassthroughExact ==
  hist.selectGot = "nil" =>
    LET after == Drop(hist.procWrote, hist.consumed) IN
      /\ IsPrefix(clientGot, after)
      /\ clientEOF => clientGot = after

\* C4: the updates sent on resCh are debug updates followed by one Result;
\* the Result is the last update, sent when doConnect returns, and nothing is
\* sent after it.
C4_DebugUpdatesThenOneResult ==
  /\ \A i \in DOMAIN resCh : resCh[i].kind = "result" => i = Len(resCh)
  /\ \A i \in DOMAIN resCh : resCh[i].kind \in {"debug", "result"}
  /\ mainPc = "done" <=> (resCh # <<>> /\ resCh[Len(resCh)].kind = "result")

\* C4 witness: the timeout Result was sent last, and the reader found the
\* marker only afterwards.
C4_Witness ==
  /\ mainPc = "done"
  /\ Len(resCh) = 3
  /\ resCh[3] = ResultUpdate(TimeoutResult)
  /\ readerPc = "sendNil"

\* C5: every Result carries exactly one of Conn and Err.
C5_ExactlyOneOfConnAndErr ==
  \A r \in Results : r.conn <=> (r.err.kind = "nil")

\* C5 witness: an error Result and no Conn, after stdout closed early.
C5_Witness ==
  \E r \in Results : ~r.conn /\ r.err.kind = "connectFailed"

\* C6 (as stated): if after the start of the process neither the marker line
\* is seen nor stdout closes within the connection timeout, the Result is a
\* timeout error without a Conn; the wait is never longer than the timeout.
C6_SilentProcessTimesOut ==
  /\ elapsed <= connectionTimeout
  /\ \A r \in Results :
       (hist.started /\ ~hist.markerSeen /\ ~hist.sawEOF) =>
         (~r.conn /\ r.err = Err("timeout"))

\* C6 (amended): if, after the process has started and the handshake line
\* was written to its stdin, the reader meets neither the marker line nor the
\* end of stdout nor a read error (an over-long line) before doConnect
\* decides, the Result is a timeout error without a Conn; the wait in the
\* select is never longer than the connection timeout.
C6_SilentProcessTimesOutAfterWrite ==
  /\ elapsed <= connectionTimeout
  /\ \A r \in Results :
       ( /\ hist.started /\ readerPc # "idle"
         /\ ~hist.markerSeen /\ ~hist.sawEOF
         /\ connErr # Err("readStdout") ) =>
         (~r.conn /\ r.err = Err("timeout"))

\* C6 witness: the timeout Result of a process that stayed silent, with its
\* stdout open, for the whole connection timeout.
C6_Witness ==
  /\ \E r \in Results : r.err = Err("timeout")
  /\ hist.procWrote = <<>>
  /\ ~hist.sawEOF
  /\ elapsed = connectionTimeout

\* C7: if the process's stdout closes before the marker line has appeared,
\* the Result is a connect-failed error whose message carries what the
\* process wrote to stderr: not a timeout, and not a Conn.
C7_EarlyEOFGivesConnectFailed ==
  \A r \in Results :
    hist.sawEOFInTime =>
      (~r.conn /\ r.err = [kind |-> "connectFailed", text |-> hist.errWrote])

\* The steps Close has taken so far are a prefix of: close stdin, cancel.
CloseInOrder ==
  /\ ctxCancelled => stdinClosed
  /\ IsPrefix(hist.closeOrder, <<"stdin.Close", "ctxCancel">>)
  /\ CloseReturned => (stdinClosed /\ ctxCancelled)

\* C8: Close closes stdin first and cancels the context afterwards: the
\* cancel never precedes the close of stdin, and every call of Close goes on
\* to do both and return.
C8_CloseStdinThenCancel ==
  /\ []CloseInOrder
  /\ (closePc >= 1) ~> (CloseReturned /\ stdinClosed /\ ctxCancelled)

\* C8 witness: Close has returned after both of its steps.
C8_Witness ==
  /\ CloseReturned
  /\ hist.closeOrder = <<"stdin.Close", "ctxCancel">>

\* C9: after Close is called the external process eventually terminates,
\* also when it ignores the EOF on its stdin.
C9_CloseTerminatesProcess == (closePc >= 1) ~> ~procAlive

\* C9 witness: stdin was closed, the process went on running, and the
\* cancelled context killed it.
C9_Witness ==
  /\ stdinClosed
  /\ hist.killed
  /\ ~procAlive

\* C10: after Close is called a consumer reading from Conn.Stdout() eventually
\* reads end-of-stream: the passthrough reader finishes and closes the write
\* side of the client stdout pipe.
C10_CloseEndsClientStdout == (closePc >= 1) ~> (clientEOF /\ readerPc = "done")

\* C11: Connect is non-blocking. Once called it returns to its caller without
\* waiting for the handshake, also when nobody ever receives from resCh; every
\* update is sent by doConnect, the separate goroutine, never by a step of
\* the caller.
C11_ConnectNonBlocking ==
  /\ [][resCh' # resCh => callerPc' = callerPc]_vars
  /\ (callerPc = "inConnect") ~> (callerPc = "returned")

\* C11 witness: Connect has returned while doConnect waits to send its first
\* update on a channel nobody receives from yet.
C11_Witness ==
  /\ callerPc = "returned"
  /\ ~receiving
  /\ mainPc = "debug1"
  /\ resCh = <<>>

\* C12: every Connect attempt eventually delivers its Result, provided the
\* consumer keeps receiving from resCh: no path of the handshake waits
\* without bound, whatever the process does with stdin, stdout and stderr.
C12_ResultEventuallyDelivered ==
  (mainPc # "idle" /\ receiving) ~> (mainPc = "done" /\ Results # {})

\* C12 witness: the Result was delivered although the reader goroutine still
\* waits in io.ReadAll(stderr) for a process that closed its stdout and goes
\* on running.
C12_Witness ==
  /\ mainPc = "done"
  /\ Results # {}
  /\ readerPc = "readStderr"
  /\ procAlive
  /\ ~procStdoutOpen

\* C13: ParseTransportMode accepts exactly three forms of spec - "ssh-lib",
\* "ssh-bin", and any string that starts with "custom:" - and for every other
\* string returns an error and no mode.
C13_ParseAcceptsExactlyThreeForms ==
  callerPc # "init" =>
    IF transportSpec = "ssh-lib" THEN mode = Mode("ssh-lib", "")
    ELSE IF transportSpec = "ssh-bin" THEN mode = Mode("ssh-bin", "")
    ELSE IF Len(transportSpec) >= 7 /\ SubSeq(transportSpec, 1, 7) = "custom:"
      THEN ~mode.err /\ mode.kind = "custom"
    ELSE mode = InvalidMode /\ callerPc = "rejected"

\* C13 witness: "custom" without a colon was rejected.
C13_Witness ==
  /\ transportSpec = "custom"
  /\ callerPc = "rejected"
  /\ mode.err

\* C14: CustomShellCommand() returns the default ssh command for an ssh-bin
\* mode, verbatim the text that followed "custom:" for a custom mode, and the
\* empty string for an ssh-lib mode.
C14_CustomShellCommandPerKind ==
  callerPc \notin {"init", "rejected", "parsed"} =>
    shellCommand =
      IF transportSpec = "ssh-lib" THEN ""
      ELSE IF transportSpec = "ssh-bin" THEN
        "ssh -o 'BatchMode=yes' ${NLPORT:+-p ${NLPORT}} ${NLUSER:+${NLUSER}@}${NLHOST} /bin/sh"
      ELSE SubSeq(transportSpec, 8, Len(transportSpec))

\* C14 witness: the command of "custom:custom:sh" is "custom:sh".
C14_Witness ==
  /\ callerPc = "command"
  /\ transportSpec = "custom:custom:sh"
  /\ shellCommand = "custom:sh"

\* The value a variable has for the command: the override map's entry when
\* there is one, the process environment's otherwise; "" when unset.
ValueOf(n) == IF n \in DOMAIN envOverride THEN envOverride[n] ELSE osEnv[n]

\* doConnect has parsed the command: the fields it goes on to run, or the
\* kind of the error it reports.
Parsed == mainPc \notin {"idle", "parse"}
ParsedFields ==
  IF mainPc = "debug1" THEN [err |-> "nil", fields |-> cmdFields]
  ELSE [err |-> res.err.kind, fields |-> <<>>]
Fields(f) == [err |-> "nil", fields |-> f]

C16_ExpansionForms ==
  Parsed =>
    LET x == ValueOf("X") IN
    CASE transportSpec = "custom:a ${X:-d}" ->
           ParsedFields = Fields(<<"a", IF x = "" THEN "d" ELSE x>>)
      [] transportSpec = "custom:a ${X:+b}" ->
           ParsedFields = Fields(IF x # "" THEN <<"a", "b">> ELSE <<"a">>)
      [] transportSpec = "custom:a ${X}" ->
           ParsedFields = Fields(IF x # "" THEN <<"a", x>> ELSE <<"a">>)
      [] transportSpec = "custom:a '${X}' \"${X:-d}\" ''" ->
           ParsedFields =
             Fields(<<"a", "${X}", IF x = "" THEN "d" ELSE x, "">>)
      [] transportSpec = "custom:if ${X:+a b} fi" ->
           ParsedFields =
             Fields(IF x # "" THEN <<"if", "a", "b", "fi">> ELSE <<"if", "fi">>)
      [] transportSpec \in {"custom:a $(b)", "custom:a; b",
                            "custom:if true; then a; fi"} ->
           ParsedFields.err = "parse"
      [] OTHER -> TRUE

\* C16 witness: ${X:-d} gave d for an X that the override map unsets.
C16_Witness ==
  /\ transportSpec = "custom:a ${X:-d}"
  /\ "X" \in DOMAIN envOverride
  /\ ValueOf("X") = ""
  /\ cmdFields = <<"a", "d">>

\* C17: an entry of the override map takes precedence over the process
\* environment: a name present with a non-empty value yields that value, a
\* name present with an empty value is unset even if the environment
\* defines it, and a name absent from the map yields the environment's value.
C17_OverridePrecedence ==
  (transportSpec = "custom:a ${X}" /\ Parsed) =>
    ParsedFields =
      Fields(IF "X" \in DOMAIN envOverride
               THEN (IF envOverride["X"] # ""
                       THEN <<"a", envOverride["X"]>> ELSE <<"a">>)
               ELSE (IF osEnv["X"] # "" THEN <<"a", osEnv["X"]>> ELSE <<"a">>))

\* C17 witness: the map's empty entry hid the environment's value.
C17_Witness ==
  /\ transportSpec = "custom:a ${X}"
  /\ "X" \in DOMAIN envOverride /\ envOverride["X"] = ""
  /\ osEnv["X"] = "e"
  /\ cmdFields = <<"a">>

\* C18: the handshake line "echo __CONNECTED__" is written to the process's
\* stdin only after the process was started and before the handshake begins
\* to wait for the marker; when that write fails, the Result is an error of
\* that write and no Conn is ever reported.
C18_MarkerWrittenAfterStartBeforeWait ==
  /\ hist.markerWritten => hist.started
  /\ (readerPc # "idle" \/ mainPc \in {"select", "debug3"} \/ res.conn)
       => hist.markerWritten
  /\ (stdinPipe # <<>>) => (stdinPipe = HandshakeLine /\ hist.markerWritten)
  /\ hist.writeFailed =>
       /\ ~hist.markerWritten /\ readerPc = "idle" /\ elapsed = 0
       /\ mainPc \in {"sendResult", "done"}
       /\ ~res.conn /\ res.err.kind # "nil"
       /\ \A r \in Results : ~r.conn /\ r.err = Err("writeMarker")

\* C18 witness: the write failed for a process that had closed its stdin, and
\* the error Result was delivered.
C18_Witness ==
  /\ hist.writeFailed
  /\ procAlive
  /\ \E r \in Results : r.err = Err("writeMarker")

\* C19: the goroutine that reads stdout during the handshake never stays
\* blocked forever: in every execution, also when doConnect has reported a
\* timeout and the marker or the end of stdout arrives afterwards, it
\* eventually finishes and closes the client stdout pipe.
C19_ReaderEventuallyFinishes ==
  (readerPc # "idle") ~> (readerPc = "done" /\ clientStdoutWClosed)

\* C20: whenever an error Result is reported after the process was started,
\* the process's context is cancelled and the process does not go on
\* running.
C20_FailedConnectCancelsProcess ==
  \A r \in Results :
    (hist.started /\ ~r.conn) => (ctxCancelled /\ ~procAlive)

\* C21: parsing and printing a transport mode are inverse. For every mode
\* built by NewTransportModeSSHLib, NewTransportModeSSHBin or
\* NewTransportModeCustom(c) - c any string, the empty one and those starting
\* with "custom:" included - ParseTransportMode(m.String()) succeeds and gives
\* a mode of the same kind and custom command; and for every spec that
\* ParseTransportMode accepts, the parsed mode's String() is that spec.
C21_ParseStringInverse ==
  /\ callerPc = "builtReparsed" =>
       /\ ~reparsed.err
       /\ reparsed.kind = mode.kind
       /\ reparsed.customCommand = mode.customCommand
  /\ callerPc \in {"printed", "reparsed"} => modeString = transportSpec

\* C21 witness: the mode built for the custom command "custom:sh" was printed
\* as "custom:custom:sh" and parsed back.
C21_Witness ==
  /\ callerPc = "builtReparsed"
  /\ mode = NewTransportModeCustom("custom:sh")
  /\ modeString = "custom:custom:sh"
  /\ reparsed = mode

\* C22: when the transport command fails to parse or expands to zero fields,
\* Connect reports an error Result without starting any process and without
\* sending any debug update: the Result is the only update on the channel.
\* (cmdFields is empty after the parse in exactly these two cases.)
C22_ParseErrorOnlyResult ==
  (Parsed /\ cmdFields = <<>>) =>
    /\ ~hist.started /\ ~procAlive /\ readerPc = "idle"
    /\ ~res.conn
    /\ res.err = IF ShellFields(shellCommand).err THEN Err("parse")
                                                  ELSE Err("empty")
    /\ mainPc \in {"sendResult", "done"}
    /\ resCh = IF mainPc = "done" THEN <<ResultUpdate(res)>> ELSE <<>>

\* C22 witness: the only update sent for a command with an unterminated
\* quote is the Result with the parse error.
C22_Witness ==
  /\ shellCommand = "a '"
  /\ mainPc = "done"
  /\ resCh = <<ResultUpdate([conn |-> FALSE, err |-> Err("parse")])>>
  /\ ~hist.started

\* C23: every transport spec that ParseTransportMode accepts with kind
\* ssh-bin or custom yields a non-empty command, so a Connect made with an
\* accepted mode never fails with the error "command is empty": an invalid
\* transport value is rejected when it is parsed, not when it is used.
C23_AcceptedModeNeverEmptyCommand ==
  \A r \in Results :
    /\ mode.kind \in {TransportModeKindSSHBin, TransportModeKindCustom}
    /\ shellCommand # ""
    /\ r.err # Err("empty")

\* C24: on a successful Connect the handshake has consumed nothing from the
\* process's stderr: Conn.Stderr() yields every byte the process wrote to
\* stderr since it was started; the handshake reads stderr only on the path
\* where stdout closed before the marker.
C24_StderrUntouchedOnSuccess ==
  /\ (hist.selectGot = "nil" \/ res.conn \/ ConnDelivered) =>
       /\ ~hist.stderrRead
       /\ stderrBytes = <<>>
       /\ stderrPipe = hist.errWrote
       /\ readerPc \in {"copy", "copyWrite", "done"}
  /\ (hist.stderrRead \/ readerPc = "readStderr" \/ stderrBytes # <<>>) =>
       /\ ~hist.markerSeen
       /\ StdoutClosed /\ rawStdout = <<>> /\ scanBuf = <<>>

\* C24 witness: a Conn was delivered for a process that had written to its
\* stderr, and what it wrote is still in the pipe the Conn hands out.
C24_Witness ==
  /\ ConnDelivered
  /\ hist.errWrote = <<"E">>
  /\ stderrPipe = <<"E">>

\* C25: after Close() on a Conn the background passthrough task terminates
\* even when no consumer is reading from Conn.Stdout(): it is not left
\* blocked forever on a write into the client stdout pipe. (A descendant of
\* the process that keeps stdout open is set aside here.)
C25_CloseEndsPassthroughWithoutConsumer ==
  (closePc >= 1) ~> (readerPc = "done" \/ descAlive)

====
